---- MODULE Spec2Model ----
(***************************************************************************)
(* Model of the T2C recycling-rewards backend: the station_sessions state  *)
(* machine (requestSession, checkSession, connectSession, endSession,      *)
(* deposit) and the points ledger (createTransaction, processDeposit,      *)
(* redeemPoints) over the tables created by InitDB.                        *)
(*                                                                         *)
(* Every HTTP request is served by its own goroutine.  A handler is cut    *)
(* into steps at its database statements: a statement run on database.DB   *)
(* is one atomic step, and the statements run on a sql.Tx take effect      *)
(* together at tx.Commit (or not at all after tx.Rollback).                *)
(* Weights are held in hundredths of a kilogram, time in minutes.          *)
(***************************************************************************)
EXTENDS Integers, Sequences, FiniteSets, TLC

\* ---- bounds of the model ----
MaxLedger == 2       \* rows of transactions
MaxClock == 6        \* last clock value

\* ---- program constants ----
DummyPoints == 1000
DemoPoints == 2500
SessionTTL == 5
CashPerPoint == 10
WeightScale == 100

\* two goroutines can be between two statements of their handlers at the same
\* time; the clock is sampled at steps just longer than the life of a session
Procs == {1, 2}
TickStep == SessionTTL + 1
Users == {1, 2}
NULL == 0
NoToken == "NULL"
NoTime == -1

\* request inputs
Tokens == {1}                    \* the uuids that uuid.New() can give
AllTokens == {1, 2}              \* and with two sessions at a time
SessionTokens == {0} \cup Tokens  \* 0 is the empty string
AuthTokens == {"", "jwt1", "jwt2", "bad"}
Signed == {"jwt1", "jwt2"}       \* the tokens that generateJWT has signed
EarnRequests == {<<"", 150>>, <<"plastic", -100>>, <<"plastic", 0>>, <<"plastic", 5>>,
                 <<"plastic", 150>>, <<"wood", 150>>}
\* the requests of the handlers without a session: also 0.33 kg and 8.2 kg
DirectRequests == EarnRequests \cup {<<"plastic", 33>>, <<"metal", 820>>}
RedeemPoints == {-600, 0, 600, 3000}
Methods == {"bank"}
StationIDs == {""}
StationNames == {"", "kiosk-7"}

\* users: total_points by user id; transactions, redemptions: the rows of the
\* tables in insertion order (the id of a row is its index)
\* station_sessions: the rows of the table by session_token
\* pc, local: where each goroutine is in its handler and what it holds
\* resp: the answer sent by the last step, NoResponse when the step sent none
\* awarded: the Earn calls committed so far, per owner (calls and points)
VARIABLES users, transactions, redemptions, station_sessions, clock, pc, local, resp, awarded

vars == <<users, transactions, redemptions, station_sessions, clock, pc, local, resp, awarded>>

\* materialRates: points per kg
materialRates == [plastic |-> 10, glass |-> 8, metal |-> 15, paper |-> 5]

\* int(x / d) of Go: truncation toward zero
Trunc(x, d) == IF x >= 0 THEN x \div d ELSE -((-x) \div d)

\* weight * float64(rate): the weights and rates of the requests whose float64
\* product is just below the exact one (8.2 * 15 is 122.99999999999999)
Float64Below == {<<820, 15>>}

\* a lookup without the test of exists would give the rate of the first material
CalculatePointsDefaultRate(itemType, weight) ==
    Trunc(weight * materialRates[IF itemType \in DOMAIN materialRates
                                 THEN itemType ELSE "plastic"], WeightScale)

CalculatePoints(itemType, weight) ==
    IF itemType \notin DOMAIN materialRates
    THEN 0
    ELSE IF <<weight, materialRates[itemType]>> \in Float64Below
    THEN Trunc(weight * materialRates[itemType] - 1, WeightScale)
    ELSE Trunc(weight * materialRates[itemType], WeightScale)

\* a verifyJWT that reads the claims of a token without checking its signature
verifyJWTUnsigned(tokenString) ==
    CASE tokenString \in {"jwt1", "bad"} -> 1
      [] tokenString = "jwt2" -> 2
      [] OTHER -> NULL

\* verifyJWT: the user id carried by a signed token, NULL on error
verifyJWT(tokenString) ==
    CASE tokenString = "jwt1" -> 1
      [] tokenString = "jwt2" -> 2
      [] OTHER -> NULL

\* time.Now().After(expiresAt)
After(now, t) == now > t

NoLocal == [uid |-> NULL, sid |-> 0, item |-> "", weight |-> 0, points |-> 0, cred |-> ""]

\* the answer of a handler: err is its error, or the status field of its Data;
\* bal, cash, uid and cred are the balance, amount_cash, userId and authToken of
\* its Data
Response(op, status, err, bal) ==
    [op |-> op, status |-> status, err |-> err, bal |-> bal, cash |-> 0,
     uid |-> NULL, cred |-> NoToken]

NoResponse == Response("none", 0, "", 0)

\* the outcome of the checks a handler makes before it writes
Fail(status, err) == [status |-> status, err |-> err]
Pass == Fail(0, "")

\* rows of transactions that a handler may still insert
InFlight == Cardinality({q \in Procs : pc[q] \in {"deposit_tx", "earn_tx", "redeem_tx"}})
Room == Len(transactions) + InFlight < MaxLedger

\* a handler that answers after a single statement holds no state between steps
Answer(r) ==
    /\ resp' = r
    /\ UNCHANGED <<pc, local, awarded>>

\* the goroutine that serves a request that needs more than one step
Free(p) == pc[p] = "idle" /\ \A q \in Procs : q < p => pc[q] # "idle"

Reply(p, r) ==
    /\ pc' = [pc EXCEPT ![p] = "idle"]
    /\ local' = [local EXCEPT ![p] = NoLocal]
    /\ resp' = r
    /\ UNCHANGED awarded

\* the handler goes on to its next statement without answering
Goto(p, label, held) ==
    /\ pc' = [pc EXCEPT ![p] = label]
    /\ local' = [local EXCEPT ![p] = held]
    /\ resp' = NoResponse

\* InitDB: empty tables and the two seeded users
Init ==
    /\ users = (1 :> DummyPoints) @@ (2 :> DemoPoints)
    /\ transactions = <<>>
    /\ redemptions = <<>>
    /\ station_sessions = <<>>
    /\ clock = 0
    /\ pc = [p \in Procs |-> "idle"]
    /\ local = [p \in Procs |-> NoLocal]
    /\ resp = NoResponse
    /\ awarded = [u \in Users |-> [calls |-> 0, points |-> 0]]

\* the clock of time.Now()
Tick ==
    /\ clock + TickStep <= MaxClock
    /\ clock' = clock + TickStep
    /\ resp' = NoResponse
    /\ UNCHANGED <<users, transactions, redemptions, station_sessions, pc, local, awarded>>

\* ---- station sessions ----

NewSession(stationID, now) ==
    [station_id |-> IF stationID = "" THEN "default" ELSE stationID,
     user_id |-> NULL, status |-> "pending", auth_token |-> NoToken,
     created_at |-> now, expires_at |-> now + SessionTTL, ended_at |-> NoTime]

SessionExists(tok) == tok \in DOMAIN station_sessions

\* INSERT INTO station_sessions: a new row under its session_token
InsertRow(tbl, tok, row) == tbl @@ (tok :> row)

requestSessionNotUnique(stationID, tok) ==
    /\ UNCHANGED <<users, transactions, redemptions, clock>>
    /\ station_sessions' = (tok :> NewSession(stationID, clock)) @@ station_sessions
    /\ Answer(Response("requestSession", 200, "", 0))

\* requestSession: tok is the outcome of uuid.New(); session_token is UNIQUE, so
\* the INSERT fails when a row has that token
requestSession(stationID, tok) ==
    /\ UNCHANGED <<users, transactions, redemptions, clock>>
    /\ IF SessionExists(tok)
       THEN /\ Answer(Response("requestSession", 500, "Failed to create session", 0))
            /\ UNCHANGED station_sessions
       ELSE /\ station_sessions' = InsertRow(station_sessions, tok, NewSession(stationID, clock))
            /\ Answer(Response("requestSession", 200, "", 0))

\* the INSERT fails
requestSessionFails(stationID) ==
    /\ Answer(Response("requestSession", 500, "Failed to create session", 0))
    /\ UNCHANGED <<users, transactions, redemptions, station_sessions, clock>>

ExpireRowSkipped(row) == row

\* UPDATE station_sessions SET status = 'expired' WHERE id = ?
ExpireRow(row) == [row EXCEPT !.status = "expired"]

checkSessionScanIgnored(tok) ==
    /\ UNCHANGED <<users, transactions, redemptions, clock>>
    /\ IF tok = 0
       THEN /\ Answer(Response("checkSession", 400, "Session token is required", 0))
            /\ UNCHANGED station_sessions
       ELSE IF ~SessionExists(tok)
       THEN /\ Answer(Response("checkSession", 200, "pending", 0))
            /\ UNCHANGED station_sessions
       ELSE IF After(clock, station_sessions[tok].expires_at)
       THEN /\ station_sessions' = [station_sessions EXCEPT ![tok] = ExpireRow(@)]
            /\ Answer(Response("checkSession", 401, "Session has expired", 0))
       ELSE IF station_sessions[tok].status = "pending" \/ station_sessions[tok].user_id = NULL
       THEN /\ Answer(Response("checkSession", 200, "pending", 0))
            /\ UNCHANGED station_sessions
       ELSE /\ Answer([Response("checkSession", 200, station_sessions[tok].status,
                                 users[station_sessions[tok].user_id])
                          EXCEPT !.uid = station_sessions[tok].user_id,
                                 !.cred = station_sessions[tok].auth_token])
            /\ UNCHANGED station_sessions

\* a checkSession that takes the poll of a connected session for its first use
checkSessionActivates(tok) ==
    /\ UNCHANGED <<users, transactions, redemptions, clock>>
    /\ IF tok = 0
       THEN /\ Answer(Response("checkSession", 400, "Session token is required", 0))
            /\ UNCHANGED station_sessions
       ELSE IF ~SessionExists(tok)
       THEN /\ Answer(Response("checkSession", 404, "Session not found", 0))
            /\ UNCHANGED station_sessions
       ELSE IF After(clock, station_sessions[tok].expires_at)
       THEN /\ station_sessions' = [station_sessions EXCEPT ![tok] = ExpireRow(@)]
            /\ Answer(Response("checkSession", 401, "Session has expired", 0))
       ELSE IF station_sessions[tok].status = "pending" \/ station_sessions[tok].user_id = NULL
       THEN /\ Answer(Response("checkSession", 200, "pending", 0))
            /\ UNCHANGED station_sessions
       ELSE /\ Answer([Response("checkSession", 200, station_sessions[tok].status,
                                 users[station_sessions[tok].user_id])
                          EXCEPT !.uid = station_sessions[tok].user_id,
                                 !.cred = station_sessions[tok].auth_token])
            /\ station_sessions' = [station_sessions EXCEPT ![tok].status = "active"]

\* checkSession: the station polls a session; an overdue session is marked expired
checkSession(tok) ==
    /\ UNCHANGED <<users, transactions, redemptions, clock>>
    /\ IF tok = 0
       THEN /\ Answer(Response("checkSession", 400, "Session token is required", 0))
            /\ UNCHANGED station_sessions
       ELSE IF ~SessionExists(tok)
       THEN /\ Answer(Response("checkSession", 404, "Session not found", 0))
            /\ UNCHANGED station_sessions
       ELSE IF After(clock, station_sessions[tok].expires_at)
       THEN /\ station_sessions' = [station_sessions EXCEPT ![tok] = ExpireRow(@)]
            /\ Answer(Response("checkSession", 401, "Session has expired", 0))
       ELSE IF station_sessions[tok].status = "pending" \/ station_sessions[tok].user_id = NULL
       THEN /\ Answer(Response("checkSession", 200, "pending", 0))
            /\ UNCHANGED station_sessions
       ELSE /\ Answer([Response("checkSession", 200, station_sessions[tok].status,
                                 users[station_sessions[tok].user_id])
                          EXCEPT !.uid = station_sessions[tok].user_id,
                                 !.cred = station_sessions[tok].auth_token])
            /\ UNCHANGED station_sessions

\* the SELECT of the user of a bound session fails
checkSessionUserFails(tok) ==
    /\ SessionExists(tok)
    /\ ~After(clock, station_sessions[tok].expires_at)
    /\ ~(station_sessions[tok].status = "pending" \/ station_sessions[tok].user_id = NULL)
    /\ Answer(Response("checkSession", 500, "Failed to retrieve user details", 0))
    /\ UNCHANGED <<users, transactions, redemptions, station_sessions, clock>>

\* the UPDATE of an overdue checkSession fails; its error is not looked at
checkSessionUpdateFails(tok) ==
    /\ SessionExists(tok)
    /\ After(clock, station_sessions[tok].expires_at)
    /\ Answer(Response("checkSession", 401, "Session has expired", 0))
    /\ UNCHANGED <<users, transactions, redemptions, station_sessions, clock>>

\* connectSession up to its SELECT: the error the handler answers with, or Pass
ConnectCheckNoConflict(tok, authToken) ==
    IF tok = 0 \/ authToken = "" THEN Fail(400, "Session token and auth token are required")
    ELSE IF verifyJWT(authToken) = NULL THEN Fail(401, "Invalid auth token")
    ELSE IF ~SessionExists(tok) THEN Fail(404, "Session not found")
    ELSE IF After(clock, station_sessions[tok].expires_at) THEN Fail(401, "Session has expired")
    ELSE Pass

ConnectCheck(tok, authToken) ==
    IF tok = 0 \/ authToken = "" THEN Fail(400, "Session token and auth token are required")
    ELSE IF verifyJWT(authToken) = NULL THEN Fail(401, "Invalid auth token")
    ELSE IF ~SessionExists(tok) THEN Fail(404, "Session not found")
    ELSE IF After(clock, station_sessions[tok].expires_at) THEN Fail(401, "Session has expired")
    ELSE IF station_sessions[tok].user_id # NULL
    THEN Fail(409, "Session is already connected to a user")
    ELSE Pass

connectSession(p, tok, authToken) ==
    /\ Free(p)
    /\ UNCHANGED <<users, transactions, redemptions, station_sessions, clock>>
    /\ LET chk == ConnectCheck(tok, authToken) IN
       IF chk # Pass
       THEN Reply(p, Response("connectSession", chk.status, chk.err, 0))
       ELSE /\ Goto(p, "connect_write", [NoLocal EXCEPT !.uid = verifyJWT(authToken),
                                                        !.sid = tok, !.cred = authToken])
            /\ UNCHANGED awarded

\* an UPDATE that leaves out the auth_token column
BindRowNoCredential(row, uid, authToken) ==
    [row EXCEPT !.user_id = uid, !.status = "connected"]

\* the UPDATE of connectSession, by row id and whatever the row holds by now
BindRow(row, uid, authToken) ==
    [row EXCEPT !.user_id = uid, !.auth_token = authToken, !.status = "connected"]

connectWrite(p) ==
    /\ pc[p] = "connect_write"
    /\ station_sessions' = [station_sessions EXCEPT
           ![local[p].sid] = BindRow(@, local[p].uid, local[p].cred)]
    /\ Reply(p, Response("connectSession", 200, "", 0))
    /\ UNCHANGED <<users, transactions, redemptions, clock>>

connectWriteFails(p) ==
    /\ pc[p] = "connect_write"
    /\ Reply(p, Response("connectSession", 500, "Failed to connect session", 0))
    /\ UNCHANGED <<users, transactions, redemptions, station_sessions, clock>>

EndRowAtExpiry(row, now) == [row EXCEPT !.status = "expired", !.expires_at = now]

\* the UPDATE of endSession: every row with that token, whatever its status
EndRow(row, now) == [row EXCEPT !.status = "expired", !.ended_at = now]

endSessionDeletes(tok) ==
    /\ UNCHANGED <<users, transactions, redemptions, clock>>
    /\ IF tok = 0
       THEN /\ Answer(Response("endSession", 400, "Session token is required", 0))
            /\ UNCHANGED station_sessions
       ELSE IF ~SessionExists(tok)
       THEN /\ Answer(Response("endSession", 404, "Session not found", 0))
            /\ UNCHANGED station_sessions
       ELSE /\ station_sessions' = [t \in DOMAIN station_sessions \ {tok} |-> station_sessions[t]]
            /\ Answer(Response("endSession", 200, "", 0))

endSession(tok) ==
    /\ UNCHANGED <<users, transactions, redemptions, clock>>
    /\ IF tok = 0
       THEN /\ Answer(Response("endSession", 400, "Session token is required", 0))
            /\ UNCHANGED station_sessions
       ELSE IF ~SessionExists(tok)
       THEN /\ Answer(Response("endSession", 404, "Session not found", 0))
            /\ UNCHANGED station_sessions
       ELSE /\ station_sessions' = [station_sessions EXCEPT ![tok] = EndRow(@, clock)]
            /\ Answer(Response("endSession", 200, "", 0))

\* the UPDATE fails
endSessionFails(tok) ==
    /\ tok # 0
    /\ Answer(Response("endSession", 500, "Failed to end session", 0))
    /\ UNCHANGED <<users, transactions, redemptions, station_sessions, clock>>

\* ---- the ledger ----

Entry(uid, type, amount, item, weight, points, tok) ==
    [user_id |-> uid, type |-> type, amount |-> amount, item_type |-> item,
     weight |-> weight, points_earned |-> points, session_token |-> tok]

AddPointsOverwrites(tbl, uid, points) == [tbl EXCEPT ![uid] = points]

\* UPDATE users SET total_points = total_points + ? WHERE id = ?
AddPoints(tbl, uid, points) == [tbl EXCEPT ![uid] = @ + points]

\* the call and the points of one more committed Earn of an owner
Count(tally, uid, points) ==
    [tally EXCEPT ![uid] = [calls |-> @.calls + 1, points |-> @.points + points]]

ActivateRowSkipped(row) == row

\* UPDATE station_sessions SET status = 'active' WHERE id = ?
ActivateRow(row) == [row EXCEPT !.status = "active"]

LinkedToAnyUser(row, uid) == row.user_id # NULL

\* deposit: does the session row belong to the caller
Linked(row, uid) == row.user_id # NULL /\ row.user_id = uid

DepositCheckLookupFirst(uid, tok, material, weight) ==
    IF ~SessionExists(tok) THEN Fail(404, "Session not found")
    ELSE IF material = "" \/ weight <= 0 \/ tok = 0
    THEN Fail(400, "Material, weight, and session token are required")
    ELSE IF ~Linked(station_sessions[tok], uid)
    THEN Fail(403, "Session not linked to this user")
    ELSE IF CalculatePoints(material, weight) = 0 THEN Fail(400, "Invalid material type")
    ELSE Pass

\* deposit up to CalculatePoints: the error the handler answers with, or Pass
DepositCheck(uid, tok, material, weight) ==
    IF material = "" \/ weight <= 0 \/ tok = 0
    THEN Fail(400, "Material, weight, and session token are required")
    ELSE IF ~SessionExists(tok) THEN Fail(404, "Session not found")
    ELSE IF ~Linked(station_sessions[tok], uid)
    THEN Fail(403, "Session not linked to this user")
    ELSE IF CalculatePoints(material, weight) = 0 THEN Fail(400, "Invalid material type")
    ELSE Pass

deposit(p, uid, tok, material, weight) ==
    /\ Free(p)
    /\ UNCHANGED <<users, transactions, redemptions, station_sessions, clock>>
    /\ LET chk == DepositCheck(uid, tok, material, weight) IN
       IF chk # Pass
       THEN Reply(p, Response("deposit", chk.status, chk.err, 0))
       ELSE /\ Room
            /\ Goto(p, "deposit_tx", [NoLocal EXCEPT !.uid = uid, !.sid = tok,
                             !.item = material, !.weight = weight,
                             !.points = CalculatePoints(material, weight)])
            /\ UNCHANGED awarded

depositCommitNoToken(p) ==
    /\ pc[p] = "deposit_tx"
    /\ transactions' = Append(transactions,
           Entry(local[p].uid, "deposit", 0, local[p].item, local[p].weight,
                 local[p].points, 0))
    /\ users' = AddPoints(users, local[p].uid, local[p].points)
    /\ station_sessions' = [station_sessions EXCEPT ![local[p].sid] = ActivateRow(@)]
    /\ awarded' = Count(awarded, local[p].uid, local[p].points)
    /\ Goto(p, "deposit_reply", local[p])
    /\ UNCHANGED <<redemptions, clock>>

\* tx.Commit of deposit: the INSERT and the two UPDATEs of the transaction
depositCommit(p) ==
    /\ pc[p] = "deposit_tx"
    /\ transactions' = Append(transactions,
           Entry(local[p].uid, "deposit", 0, local[p].item, local[p].weight,
                 local[p].points, local[p].sid))
    /\ users' = AddPoints(users, local[p].uid, local[p].points)
    /\ station_sessions' = [station_sessions EXCEPT ![local[p].sid] = ActivateRow(@)]
    /\ awarded' = Count(awarded, local[p].uid, local[p].points)
    /\ Goto(p, "deposit_reply", local[p])
    /\ UNCHANGED <<redemptions, clock>>

\* a statement of the transaction or the commit fails: the deferred tx.Rollback
depositRollback(p) ==
    /\ pc[p] = "deposit_tx"
    /\ Reply(p, Response("deposit", 500, "Failed to complete deposit", 0))
    /\ UNCHANGED <<users, transactions, redemptions, station_sessions, clock>>

\* the SELECT total_points after the commit, and the answer
depositReply(p) ==
    /\ pc[p] = "deposit_reply"
    /\ Reply(p, Response("deposit", 200, "", users[local[p].uid]))
    /\ UNCHANGED <<users, transactions, redemptions, station_sessions, clock>>

\* createTransaction and processDeposit run the same statements
DirectEarn(op, p, uid, itemType, weight) ==
    /\ Free(p)
    /\ UNCHANGED <<users, transactions, redemptions, station_sessions, clock>>
    /\ IF CalculatePoints(itemType, weight) = 0
       THEN Reply(p, Response(op, 400, "Invalid item type", 0))
       ELSE /\ Room
            /\ Goto(p, "earn_tx", [NoLocal EXCEPT !.uid = uid,
                             !.item = itemType, !.weight = weight,
                             !.points = CalculatePoints(itemType, weight)])
            /\ UNCHANGED awarded

createTransaction(p, uid, itemType, weight) ==
    DirectEarn("createTransaction", p, uid, itemType, weight)

processDeposit(p, uid, itemType, weight) ==
    DirectEarn("processDeposit", p, uid, itemType, weight)

\* a commit that also marks the sessions of the owner active, as deposit does
earnCommitActivates(p) ==
    /\ pc[p] = "earn_tx"
    /\ transactions' = Append(transactions,
           Entry(local[p].uid, "deposit", 0, local[p].item, local[p].weight,
                 local[p].points, 0))
    /\ users' = AddPoints(users, local[p].uid, local[p].points)
    /\ station_sessions' = [t \in DOMAIN station_sessions |->
           IF station_sessions[t].user_id = local[p].uid
           THEN ActivateRow(station_sessions[t]) ELSE station_sessions[t]]
    /\ awarded' = Count(awarded, local[p].uid, local[p].points)
    /\ Goto(p, "earn_reply", local[p])
    /\ UNCHANGED <<redemptions, clock>>

\* tx.Commit of createTransaction and processDeposit: the INSERT and the UPDATE
earnCommit(p) ==
    /\ pc[p] = "earn_tx"
    /\ transactions' = Append(transactions,
           Entry(local[p].uid, "deposit", 0, local[p].item, local[p].weight,
                 local[p].points, 0))
    /\ users' = AddPoints(users, local[p].uid, local[p].points)
    /\ awarded' = Count(awarded, local[p].uid, local[p].points)
    /\ Goto(p, "earn_reply", local[p])
    /\ UNCHANGED <<redemptions, station_sessions, clock>>

earnRollback(p) ==
    /\ pc[p] = "earn_tx"
    /\ Reply(p, Response("earn", 500, "Failed to complete transaction", 0))
    /\ UNCHANGED <<users, transactions, redemptions, station_sessions, clock>>

earnReply(p) ==
    /\ pc[p] = "earn_reply"
    /\ Reply(p, Response("earn", 201, "", users[local[p].uid]))
    /\ UNCHANGED <<users, transactions, redemptions, station_sessions, clock>>

\* min_points of the options that getRedemptionOptions lists
MinPoints == [bank |-> 1000, cash |-> 500, voucher |-> 250]

AmountCashDivided(points) == points \div CashPerPoint

\* amountCash := float64(req.Points) * 10.0
AmountCash(points) == points * CashPerPoint

RedeemCheckNoBalance(uid, points) ==
    IF points <= 0 THEN Fail(400, "Invalid points amount")
    ELSE Pass

\* redeemPoints up to its balance check, which reads users outside the transaction
RedeemCheck(uid, points) ==
    IF points <= 0 THEN Fail(400, "Invalid points amount")
    ELSE IF users[uid] < points THEN Fail(400, "Insufficient points")
    ELSE Pass

redeemPointsAcceptsZero(p, uid, points, method) ==
    /\ Free(p)
    /\ UNCHANGED <<users, transactions, redemptions, station_sessions, clock>>
    /\ LET chk == IF points = 0 THEN Pass ELSE RedeemCheck(uid, points) IN
       IF chk # Pass
       THEN Reply(p, Response("redeemPoints", chk.status, chk.err, 0))
       ELSE /\ Room
            /\ Goto(p, "redeem_tx", [NoLocal EXCEPT !.uid = uid,
                             !.item = method, !.points = points])
            /\ UNCHANGED awarded

redeemPoints(p, uid, points, method) ==
    /\ Free(p)
    /\ UNCHANGED <<users, transactions, redemptions, station_sessions, clock>>
    /\ LET chk == RedeemCheck(uid, points) IN
       IF chk # Pass
       THEN Reply(p, Response("redeemPoints", chk.status, chk.err, 0))
       ELSE /\ Room
            /\ Goto(p, "redeem_tx", [NoLocal EXCEPT !.uid = uid,
                             !.item = method, !.points = points])
            /\ UNCHANGED awarded

redeemCommitNoEntry(p) ==
    /\ pc[p] = "redeem_tx"
    /\ redemptions' = Append(redemptions,
           [user_id |-> local[p].uid, points_used |-> local[p].points,
            amount_cash |-> AmountCash(local[p].points), method |-> local[p].item])
    /\ users' = AddPoints(users, local[p].uid, -local[p].points)
    /\ Goto(p, "redeem_reply", local[p])
    /\ UNCHANGED <<transactions, station_sessions, clock, awarded>>

\* tx.Commit of redeemPoints: the two INSERTs and the UPDATE of the transaction
redeemCommit(p) ==
    /\ pc[p] = "redeem_tx"
    /\ redemptions' = Append(redemptions,
           [user_id |-> local[p].uid, points_used |-> local[p].points,
            amount_cash |-> AmountCash(local[p].points), method |-> local[p].item])
    /\ users' = AddPoints(users, local[p].uid, -local[p].points)
    /\ transactions' = Append(transactions,
           Entry(local[p].uid, "redemption", AmountCash(local[p].points),
                 "redemption", 0, -local[p].points, 0))
    /\ Goto(p, "redeem_reply", local[p])
    /\ UNCHANGED <<station_sessions, clock, awarded>>

redeemRollback(p) ==
    /\ pc[p] = "redeem_tx"
    /\ Reply(p, Response("redeemPoints", 500, "Failed to complete redemption", 0))
    /\ UNCHANGED <<users, transactions, redemptions, station_sessions, clock>>

redeemReply(p) ==
    /\ pc[p] = "redeem_reply"
    /\ Reply(p, [Response("redeemPoints", 201, "", users[local[p].uid])
                   EXCEPT !.cash = AmountCash(local[p].points)])
    /\ UNCHANGED <<users, transactions, redemptions, station_sessions, clock>>

\* ---- specifications ----

SessionStep ==
    \/ Tick
    \/ \E st \in StationIDs, tok \in Tokens : requestSession(st, tok)
    \/ \E st \in StationIDs : requestSessionFails(st)
    \/ \E tok \in SessionTokens : checkSession(tok)
    \/ \E tok \in SessionTokens : checkSessionUpdateFails(tok)
    \/ \E tok \in SessionTokens : checkSessionUserFails(tok)
    \/ \E p \in Procs, tok \in SessionTokens, a \in AuthTokens : connectSession(p, tok, a)
    \/ \E p \in Procs : connectWrite(p)
    \/ \E p \in Procs : connectWriteFails(p)
    \/ \E tok \in SessionTokens : endSession(tok)
    \/ \E tok \in SessionTokens : endSessionFails(tok)
    \/ \E p \in Procs, uid \in Users, tok \in SessionTokens, r \in EarnRequests :
           deposit(p, uid, tok, r[1], r[2])
    \/ \E p \in Procs : depositCommit(p)
    \/ \E p \in Procs : depositRollback(p)
    \/ \E p \in Procs : depositReply(p)

LedgerStep ==
    \/ \E p \in Procs, uid \in Users, r \in DirectRequests :
           createTransaction(p, uid, r[1], r[2])
    \/ \E p \in Procs, uid \in Users, r \in DirectRequests :
           processDeposit(p, uid, r[1], r[2])
    \/ \E p \in Procs : earnCommit(p)
    \/ \E p \in Procs : earnRollback(p)
    \/ \E p \in Procs : earnReply(p)
    \/ \E p \in Procs, uid \in Users, n \in RedeemPoints, m \in Methods :
           redeemPoints(p, uid, n, m)
    \/ \E p \in Procs : redeemCommit(p)
    \/ \E p \in Procs : redeemRollback(p)
    \/ \E p \in Procs : redeemReply(p)

\* the session handlers without the deposits, with two sessions at a time
CreateStep ==
    \/ Tick
    \/ \E st \in StationNames, tok \in AllTokens : requestSession(st, tok)
    \/ \E tok \in AllTokens : checkSession(tok)
    \/ \E p \in Procs, tok \in AllTokens, a \in AuthTokens : connectSession(p, tok, a)
    \/ \E p \in Procs : connectWrite(p)
    \/ \E tok \in AllTokens : endSession(tok)

\* every handler that writes the ledger or the sessions, called by the first
\* user with requests that pass its checks
AuditStep ==
    \/ Tick
    \/ \E tok \in Tokens : requestSession("", tok)
    \/ \E tok \in Tokens : checkSession(tok)
    \/ \E p \in Procs, tok \in Tokens : connectSession(p, tok, "jwt1")
    \/ \E p \in Procs : connectWrite(p)
    \/ \E tok \in Tokens : endSession(tok)
    \/ \E p \in Procs, tok \in Tokens : deposit(p, 1, tok, "plastic", 150)
    \/ \E p \in Procs : depositCommit(p)
    \/ \E p \in Procs : depositReply(p)
    \/ \E p \in Procs : createTransaction(p, 1, "plastic", 150)
    \/ \E p \in Procs : earnCommit(p)
    \/ \E p \in Procs : earnReply(p)
    \/ \E p \in Procs, m \in Methods : redeemPoints(p, 1, 600, m)
    \/ \E p \in Procs : redeemCommit(p)
    \/ \E p \in Procs : redeemReply(p)

\* a session and the requests of the two users on it, while the station polls;
\* sessions are created while the clock can still pass their deadline
PollStep ==
    \/ Tick
    \/ \E tok \in Tokens : clock + TickStep <= MaxClock /\ requestSession("", tok)
    \/ \E tok \in Tokens : checkSession(tok)
    \/ \E p \in Procs, tok \in Tokens, a \in Signed : connectSession(p, tok, a)
    \/ \E p \in Procs : connectWrite(p)
    \/ \E tok \in Tokens : endSession(tok)
    \/ \E p \in Procs, uid \in Users, tok \in Tokens : deposit(p, uid, tok, "plastic", 150)
    \/ \E p \in Procs : depositCommit(p)
    \/ \E p \in Procs : depositReply(p)

Next == SessionStep \/ LedgerStep

\* the whole backend
Spec == Init /\ [][Next]_vars

\* the pairing sessions and the deposits made through them
SessionSpec == Init /\ [][SessionStep]_vars

\* the ledger on its own: direct earns and redemptions
LedgerSpec == Init /\ [][LedgerStep]_vars

\* the life of two sessions side by side
CreateSpec == Init /\ [][CreateStep]_vars

\* the writers of the ledger and of the sessions together
AuditSpec == Init /\ [][AuditStep]_vars

\* the clock keeps advancing and the station keeps polling
PollSpec ==
    /\ Init /\ [][PollStep]_vars
    /\ WF_vars(Tick)
    /\ \A tok \in Tokens : WF_vars(checkSession(tok))

\* ---- properties ----

RECURSIVE SumPoints(_, _)
\* the sum of points_earned over the rows of an owner
SumPoints(rows, uid) ==
    IF rows = <<>> THEN 0
    ELSE (IF Head(rows).user_id = uid THEN Head(rows).points_earned ELSE 0)
         + SumPoints(Tail(rows), uid)

RECURSIVE SumUsed(_, _)
\* the sum of points_used over the redemptions of an owner
SumUsed(rows, uid) ==
    IF rows = <<>> THEN 0
    ELSE (IF Head(rows).user_id = uid THEN Head(rows).points_used ELSE 0)
         + SumUsed(Tail(rows), uid)

EarnRows(uid) ==
    {i \in 1..Len(transactions) :
        transactions[i].user_id = uid /\ transactions[i].type = "deposit"}

Terminal == {"ended", "expired"}

\* a request that passes the input validation of deposit
WellFormed(tok, material, weight) == material # "" /\ weight > 0 /\ tok # 0

\* C1: in every reachable state the stored balance of every owner equals the sum
\* of the signed point deltas of that owner's ledger entries.
C1_BalanceIsLedgerSum ==
    \A u \in Users : users[u] = SumPoints(transactions, u)

\* C2: under any interleaving of concurrent redeemPoints requests no stored
\* balance is ever negative.
C2_BalanceNeverNegative ==
    \A u \in Users : users[u] >= 0

\* C3: once a session has a bound user, no later step binds it to a different
\* user (first bind wins, also between concurrent connectSession requests).
C3_BoundUserNeverChanges ==
    [][\A s \in DOMAIN station_sessions :
          station_sessions[s].user_id # NULL
              => station_sessions'[s].user_id = station_sessions[s].user_id]_vars

\* C4: a session whose stored status is ended or expired never becomes pending,
\* connected or active again.
C4_TerminalIsAbsorbing ==
    [][\A s \in DOMAIN station_sessions :
          station_sessions[s].status \in Terminal
              => station_sessions'[s].status \in Terminal]_vars

\* C5: a deposit called after a successful endSession on its token, by the bound
\* user and otherwise valid, is answered with an error and writes nothing.
C5_DepositAfterEndFails ==
    [][\A p \in Procs, uid \in Users, tok \in Tokens, r \in EarnRequests :
          ( /\ deposit(p, uid, tok, r[1], r[2])
            /\ WellFormed(tok, r[1], r[2])
            /\ CalculatePoints(r[1], r[2]) # 0
            /\ SessionExists(tok)
            /\ station_sessions[tok].user_id = uid
            /\ station_sessions[tok].ended_at # NoTime )
          => ( /\ resp'.op = "deposit" /\ resp'.status >= 400
               /\ pc'[p] = "idle"
               /\ UNCHANGED <<users, transactions>> )]_vars

\* C6: a deposit called after the expiry deadline of its session, by the bound
\* user and otherwise valid, is answered "Session has expired" and writes nothing.
C6_DepositAfterDeadlineFails ==
    [][\A p \in Procs, uid \in Users, tok \in Tokens, r \in EarnRequests :
          ( /\ deposit(p, uid, tok, r[1], r[2])
            /\ WellFormed(tok, r[1], r[2])
            /\ CalculatePoints(r[1], r[2]) # 0
            /\ SessionExists(tok)
            /\ station_sessions[tok].user_id = uid
            /\ After(clock, station_sessions[tok].expires_at) )
          => ( /\ resp'.op = "deposit" /\ resp'.err = "Session has expired"
               /\ pc'[p] = "idle"
               /\ UNCHANGED <<users, transactions>> )]_vars

\* C7: a deposit with valid input on an existing session whose bound user is not
\* the caller (or that has no bound user) is answered 403 "Session not linked to
\* this user", ends there, and leaves balances, ledger and session as they were.
C7_DepositByStrangerForbidden ==
    [][\A p \in Procs, uid \in Users, tok \in Tokens, r \in EarnRequests :
          ( /\ deposit(p, uid, tok, r[1], r[2])
            /\ WellFormed(tok, r[1], r[2])
            /\ SessionExists(tok)
            /\ station_sessions[tok].user_id # uid )
          => ( /\ resp' = Response("deposit", 403, "Session not linked to this user", 0)
               /\ pc'[p] = "idle"
               /\ UNCHANGED <<users, transactions, redemptions, station_sessions>> )]_vars

\* the last step refused a well-formed deposit of a user on a session bound to another
C7_Witness ==
    /\ resp.op = "deposit" /\ resp.status = 403
    /\ \E s \in DOMAIN station_sessions : station_sessions[s].user_id # NULL

\* C8: a connectSession with a valid credential on an unexpired session that
\* already has a bound user is answered 409 and leaves the bound user, the stored
\* credential and the status of the session as they were.
C8_SecondBindConflicts ==
    [][\A p \in Procs, tok \in Tokens, a \in AuthTokens :
          ( /\ connectSession(p, tok, a)
            /\ verifyJWT(a) # NULL
            /\ SessionExists(tok)
            /\ ~After(clock, station_sessions[tok].expires_at)
            /\ station_sessions[tok].user_id # NULL )
          => ( /\ resp' = Response("connectSession", 409,
                                   "Session is already connected to a user", 0)
               /\ pc'[p] = "idle"
               /\ UNCHANGED station_sessions )]_vars

\* the last step refused a second bind
C8_Witness ==
    /\ resp.op = "connectSession" /\ resp.status = 409
    /\ \E s \in DOMAIN station_sessions :
          station_sessions[s].user_id # NULL /\ station_sessions[s].auth_token # NoToken

\* the three writes of a deposit, seen across one step of goroutine p
DepositPersisted(p) ==
    /\ transactions' = Append(transactions,
           Entry(local[p].uid, "deposit", 0, local[p].item, local[p].weight,
                 local[p].points, local[p].sid))
    /\ users' = [users EXCEPT ![local[p].uid] = @ + local[p].points]
    /\ station_sessions'[local[p].sid].status = "active"

\* C9: every step of a deposit handler persists the ledger entry, the balance
\* increase and the active status together, or none of them; also when another
\* request ends or checks the session in between and when the transaction fails.
C9_DepositAllOrNothing ==
    [][\A p \in Procs :
          (pc[p] \in {"deposit_tx", "deposit_reply"} /\ pc'[p] # pc[p])
          => \/ DepositPersisted(p)
             \/ UNCHANGED <<transactions, users, station_sessions>>]_vars

\* a deposit has committed on a session that another request ended meanwhile
C9_Witness ==
    \E p \in Procs :
        /\ pc[p] = "deposit_reply"
        /\ station_sessions[local[p].sid].ended_at # NoTime
        /\ station_sessions[local[p].sid].status = "active"
        /\ transactions # <<>>

\* C10: whatever the interleaving of the Earn calls of an owner, the balance has
\* grown by the points of every committed call and the ledger holds one entry
\* per committed call.
C10_NoLostEarn ==
    \A u \in Users :
        /\ Cardinality(EarnRows(u)) = awarded[u].calls
        /\ SumPoints(transactions, u) + SumUsed(redemptions, u) = awarded[u].points
        /\ users[u] = (IF u = 1 THEN DummyPoints ELSE DemoPoints)
                      + awarded[u].points - SumUsed(redemptions, u)

\* two Earn calls of one owner were in flight together and both have committed
C10_Witness ==
    /\ \A p \in Procs : pc[p] = "earn_reply"
    /\ \A p, q \in Procs : local[p].uid = local[q].uid
    /\ \A p \in Procs : awarded[local[p].uid].calls >= 2

\* C11: in every reachable state a session has a bound user if and only if its
\* status is connected or active; an ended or expired session has none.
C11_BoundIffConnectedOrActive ==
    \A s \in DOMAIN station_sessions :
        (station_sessions[s].user_id # NULL)
            <=> (station_sessions[s].status \in {"connected", "active"})

\* C12: an endSession on a session whose status is pending, connected or active
\* sets the status to ended and records the time of the call as its end time.
C12_EndSetsEnded ==
    [][\A tok \in Tokens :
          ( /\ endSession(tok)
            /\ SessionExists(tok)
            /\ station_sessions[tok].status \notin Terminal )
          => ( /\ station_sessions'[tok].status = "ended"
               /\ station_sessions'[tok].ended_at = clock )]_vars

\* C13: an endSession on a session that is already ended or expired is answered
\* 404 (nothing to end) and leaves its status and its end time as they were.
C13_EndOfTerminalIsNoOp ==
    [][\A tok \in Tokens :
          ( /\ endSession(tok)
            /\ SessionExists(tok)
            /\ station_sessions[tok].status \in Terminal )
          => ( /\ resp'.op = "endSession" /\ resp'.status = 404
               /\ station_sessions'[tok].status = station_sessions[tok].status
               /\ station_sessions'[tok].ended_at = station_sessions[tok].ended_at )]_vars

\* C14: a checkSession on a session whose deadline has passed is answered
\* "Session has expired" and leaves the stored status expired, whatever the
\* status was before and whether or not anything was written since the deadline.
C14_CheckAfterDeadlineExpires ==
    [][\A tok \in Tokens :
          ( /\ checkSession(tok)
            /\ SessionExists(tok)
            /\ After(clock, station_sessions[tok].expires_at) )
          => ( /\ resp' = Response("checkSession", 401, "Session has expired", 0)
               /\ station_sessions'[tok].status = "expired" )]_vars

\* the last step was an overdue check of a session that had been bound and not ended
C14_Witness ==
    /\ resp.op = "checkSession" /\ resp.err = "Session has expired"
    /\ \E s \in DOMAIN station_sessions :
          /\ After(clock, station_sessions[s].expires_at)
          /\ station_sessions[s].status = "expired"
          /\ station_sessions[s].user_id # NULL
          /\ station_sessions[s].ended_at = NoTime

\* C15: a connectSession on a session whose status is not pending (connected,
\* active, ended or expired), also one with no bound user and a deadline not
\* yet passed, is answered with an error, goes no further, and leaves the
\* session as it was.
C15_BindOnlyFromPending ==
    [][\A p \in Procs, tok \in Tokens, a \in AuthTokens :
          ( /\ connectSession(p, tok, a)
            /\ SessionExists(tok)
            /\ station_sessions[tok].status # "pending" )
          => ( /\ resp'.op = "connectSession" /\ resp'.status >= 400
               /\ pc'[p] = "idle"
               /\ UNCHANGED station_sessions )]_vars

\* C16: a connectSession with a valid credential on a session whose deadline has
\* passed is answered "Session has expired", binds no user and no credential,
\* and leaves the stored status expired.
C16_BindAfterDeadlineMarksExpired ==
    [][\A p \in Procs, tok \in Tokens, a \in AuthTokens :
          ( /\ connectSession(p, tok, a)
            /\ verifyJWT(a) # NULL
            /\ SessionExists(tok)
            /\ After(clock, station_sessions[tok].expires_at) )
          => ( /\ resp' = Response("connectSession", 401, "Session has expired", 0)
               /\ pc'[p] = "idle"
               /\ station_sessions'[tok].user_id = station_sessions[tok].user_id
               /\ station_sessions'[tok].auth_token = station_sessions[tok].auth_token
               /\ station_sessions'[tok].status = "expired" )]_vars

\* C17: createTransaction and processDeposit with a material of the rate table
\* and a weight above 0 go on to award exactly floor(weight * rate) points,
\* also when that is 0 (0.05 kg of plastic) and for every such weight
\* (1.5 kg of plastic gives 15, 0.33 kg gives 3).
C17_EarnAwardsFloor ==
    [][\A p \in Procs, uid \in Users, r \in DirectRequests :
          ( /\ createTransaction(p, uid, r[1], r[2]) \/ processDeposit(p, uid, r[1], r[2])
            /\ r[1] \in DOMAIN materialRates
            /\ r[2] > 0 )
          => ( /\ pc'[p] = "earn_tx"
               /\ local'[p].points = (r[2] * materialRates[r[1]]) \div WeightScale )]_vars

\* C18: createTransaction and processDeposit with a weight of 0 or less are
\* answered with an error for every material and go no further, writing no
\* ledger entry and no balance; and no committed Earn lowers a balance.
C18_EarnRejectsNonPositiveWeight ==
    [][/\ \A p \in Procs, uid \in Users, r \in DirectRequests :
             ( /\ createTransaction(p, uid, r[1], r[2]) \/ processDeposit(p, uid, r[1], r[2])
               /\ r[2] <= 0 )
             => ( /\ resp'.status = 400
                  /\ pc'[p] = "idle"
                  /\ UNCHANGED <<users, transactions>> )
       /\ \A p \in Procs :
             earnCommit(p) => \A u \in Users : users'[u] >= users[u]]_vars

\* the checks of deposit that come before CalculatePoints pass
ReachesPoints(uid, tok, material, weight) ==
    /\ WellFormed(tok, material, weight)
    /\ SessionExists(tok)
    /\ station_sessions[tok].user_id = uid

\* createTransaction and processDeposit, called now with that material, can
\* only answer 400 "Invalid item type" and write nothing
DirectEarnRejects(p, uid, material, weight) ==
    ~ENABLED ( /\ createTransaction(p, uid, material, weight)
                  \/ processDeposit(p, uid, material, weight)
               /\ ~( /\ resp'.status = 400 /\ resp'.err = "Invalid item type"
                     /\ pc'[p] = "idle"
                     /\ UNCHANGED <<users, transactions, redemptions, station_sessions>> ) )

\* deposit, called now with that material, can only answer with an error (400
\* "Invalid material type" when its earlier checks pass) and write nothing
DepositRejects(p, uid, tok, material, weight) ==
    ~ENABLED ( /\ deposit(p, uid, tok, material, weight)
               /\ ~( /\ resp'.op = "deposit" /\ resp'.status >= 400
                     /\ ReachesPoints(uid, tok, material, weight)
                        => resp' = Response("deposit", 400, "Invalid material type", 0)
                     /\ pc'[p] = "idle"
                     /\ UNCHANGED <<users, transactions, redemptions, station_sessions>> ) )

\* C19: in every reachable state, a deposit with a material that is not in the
\* rate table is answered with an error (400 "Invalid material type" once the
\* session is found and linked to the caller), goes no further, and leaves every
\* balance, the ledger and the session as they were; createTransaction and
\* processDeposit with such a material are answered 400 "Invalid item type" and
\* write nothing.
C19_UnknownMaterialRejected ==
    \A p \in Procs, uid \in Users, r \in DirectRequests :
        r[1] \notin DOMAIN materialRates
        => /\ \A tok \in SessionTokens : DepositRejects(p, uid, tok, r[1], r[2])
           /\ DirectEarnRejects(p, uid, r[1], r[2])

\* the last step refused a deposit of the bound user for its material
C19_Witness ==
    /\ resp = Response("deposit", 400, "Invalid material type", 0)
    /\ \E s \in DOMAIN station_sessions : station_sessions[s].user_id # NULL
    /\ transactions = <<>>

\* C20: a redeemPoints for a positive number of points that is more than the
\* stored balance of the caller is answered 400 "Insufficient points", goes no
\* further, and leaves the balances, the ledger and the redemptions as they were.
C20_SpendMoreThanBalanceFails ==
    [][\A p \in Procs, uid \in Users, n \in RedeemPoints, m \in Methods :
          ( /\ redeemPoints(p, uid, n, m)
            /\ n > 0
            /\ n > users[uid] )
          => ( /\ resp' = Response("redeemPoints", 400, "Insufficient points", 0)
               /\ pc'[p] = "idle"
               /\ UNCHANGED <<users, transactions, redemptions>> )]_vars

\* the last step refused a redemption of an owner who had redeemed before
C20_Witness ==
    /\ resp = Response("redeemPoints", 400, "Insufficient points", 0)
    /\ redemptions # <<>>
    /\ \A p \in Procs : pc[p] = "idle"

\* the three writes of a redemption, seen across one step of goroutine p
RedeemPersisted(p) ==
    /\ users' = [users EXCEPT ![local[p].uid] = @ - local[p].points]
    /\ Len(transactions') = Len(transactions) + 1
    /\ SubSeq(transactions', 1, Len(transactions)) = transactions
    /\ transactions'[Len(transactions')].user_id = local[p].uid
    /\ transactions'[Len(transactions')].points_earned = -local[p].points
    /\ Len(redemptions') = Len(redemptions) + 1
    /\ SubSeq(redemptions', 1, Len(redemptions)) = redemptions
    /\ redemptions'[Len(redemptions')].user_id = local[p].uid
    /\ redemptions'[Len(redemptions')].points_used = local[p].points

\* C21: a redeemPoints that succeeds lowers the balance of the owner by exactly
\* the points asked, adds one ledger entry with minus those points and one
\* redemption with those points, all in one step; every other step of the
\* handler (a failed transaction, the answer) writes none of the three.
C21_SpendAllOrNothing ==
    [][\A p \in Procs :
          (pc[p] \in {"redeem_tx", "redeem_reply"} /\ pc'[p] # pc[p])
          => IF pc'[p] = "redeem_reply"
             THEN RedeemPersisted(p)
             ELSE UNCHANGED <<users, transactions, redemptions>>]_vars

\* a redemption has committed while another one was rolled back or is in flight
C21_Witness ==
    \E p \in Procs :
        /\ pc[p] = "redeem_reply"
        /\ Len(redemptions) = 1 /\ Len(transactions) = 1
        /\ redemptions[1].points_used = local[p].points
        /\ transactions[1].points_earned = -local[p].points
        /\ users[local[p].uid] = (IF local[p].uid = 1 THEN DummyPoints ELSE DemoPoints)
                                 - local[p].points

\* C22: for every redeemPoints that succeeds with p points, the amount_cash of
\* the redemption, the amount of the ledger entry and the amount_cash of the
\* answer are all 10 * p (100 points = Rp 1,000).
C22_CashIsTenTimesPoints ==
    [][\A p \in Procs :
          /\ (pc[p] = "redeem_tx" /\ pc'[p] = "redeem_reply")
             => /\ redemptions'[Len(redemptions')].amount_cash = 10 * local[p].points
                /\ transactions'[Len(transactions')].amount = 10 * local[p].points
          /\ (pc[p] = "redeem_reply" /\ pc'[p] = "idle")
             => /\ resp'.op = "redeemPoints" /\ resp'.status = 201
                /\ resp'.cash = 10 * local[p].points]_vars

\* the last step answered a redemption of 600 points with Rp 6,000
C22_Witness ==
    /\ resp.op = "redeemPoints" /\ resp.status = 201 /\ resp.cash = 6000
    /\ \E i \in 1..Len(redemptions) :
          redemptions[i].points_used = 600 /\ redemptions[i].amount_cash = 6000
    /\ \E i \in 1..Len(transactions) :
          transactions[i].type = "redemption" /\ transactions[i].amount = 6000

\* C23: a redeemPoints with points of 0 or less is answered 400 "Invalid points
\* amount", goes no further, and changes no balance, ledger entry or redemption.
C23_SpendRejectsNonPositivePoints ==
    [][\A p \in Procs, uid \in Users, n \in RedeemPoints, m \in Methods :
          ( /\ redeemPoints(p, uid, n, m)
            /\ n <= 0 )
          => ( /\ resp' = Response("redeemPoints", 400, "Invalid points amount", 0)
               /\ pc'[p] = "idle"
               /\ UNCHANGED <<users, transactions, redemptions>> )]_vars

\* the last step refused a redemption for its points, after one that succeeded
C23_Witness ==
    /\ resp = Response("redeemPoints", 400, "Invalid points amount", 0)
    /\ Len(redemptions) = 1 /\ Len(transactions) = 1
    /\ \A p \in Procs : pc[p] = "idle"

\* the ledger entries that carry a session token
TokenRows(rows, tok) == {i \in 1..Len(rows) : rows[i].session_token = tok}

\* C24: the step on which a deposit succeeds leaves the session active (from
\* connected on the first deposit, from active on the later ones) and adds
\* exactly one ledger entry, which carries the token; no other step of the
\* handler adds one, so a token with k committed deposits has k ledger entries.
C24_DepositActivatesAndAddsOneEntry ==
    [][/\ \A p \in Procs :
             (pc[p] \in {"deposit_tx", "deposit_reply"} /\ pc'[p] # pc[p])
             => IF pc'[p] = "deposit_reply"
                THEN /\ station_sessions'[local[p].sid].status = "active"
                     /\ Len(transactions') = Len(transactions) + 1
                     /\ SubSeq(transactions', 1, Len(transactions)) = transactions
                     /\ transactions'[Len(transactions')].session_token = local[p].sid
                     /\ transactions'[Len(transactions')].user_id = local[p].uid
                ELSE UNCHANGED transactions
       /\ \A tok \in Tokens :
             Cardinality(TokenRows(transactions', tok))
                 = awarded'[1].calls + awarded'[2].calls]_vars

\* a second deposit has committed on a session that the first one had made active
C24_Witness ==
    \E p \in Procs :
        /\ pc[p] = "deposit_reply"
        /\ Cardinality(TokenRows(transactions, local[p].sid)) = 2
        /\ awarded[local[p].uid].calls = 2
        /\ station_sessions[local[p].sid].status = "active"
        /\ station_sessions[local[p].sid].ended_at = NoTime

\* C25: a requestSession that succeeds adds one session under a token that no
\* session had: status pending, no user, no credential, no end time, expiry 5
\* minutes after the call, station "default" when none is given; it leaves every
\* other session as it was, and a requestSession that fails adds nothing.
C25_CreateMakesFreshPendingSession ==
    [][\A st \in StationNames, tok \in AllTokens :
          requestSession(st, tok)
          => IF resp'.status = 200
             THEN /\ tok \notin DOMAIN station_sessions
                  /\ DOMAIN station_sessions' = DOMAIN station_sessions \cup {tok}
                  /\ station_sessions'[tok].status = "pending"
                  /\ station_sessions'[tok].user_id = NULL
                  /\ station_sessions'[tok].auth_token = NoToken
                  /\ station_sessions'[tok].ended_at = NoTime
                  /\ station_sessions'[tok].expires_at = clock + 5
                  /\ station_sessions'[tok].station_id = (IF st = "" THEN "default" ELSE st)
                  /\ \A t \in DOMAIN station_sessions :
                        station_sessions'[t] = station_sessions[t]
             ELSE UNCHANGED station_sessions]_vars

\* the last step created a second session, later than a first one that is bound
C25_Witness ==
    /\ resp = Response("requestSession", 200, "", 0)
    /\ DOMAIN station_sessions = AllTokens
    /\ \E t, u \in AllTokens :
          /\ station_sessions[t].status = "pending"
          /\ station_sessions[t].created_at = clock
          /\ station_sessions[t].station_id = "default"
          /\ station_sessions[u].user_id # NULL
          /\ station_sessions[u].created_at < clock

\* C26: a checkSession answered 200 reports the stored status of the session
\* (pending only when the stored status is pending) and, for a connected or
\* active session, the bound user, the balance of that user and the stored
\* credential.
C26_CheckReportsStoredStatus ==
    [][\A tok \in Tokens :
          ( /\ checkSession(tok)
            /\ resp'.status = 200 )
          => ( /\ resp'.err = station_sessions[tok].status
               /\ station_sessions[tok].status \in {"connected", "active"}
                  => /\ resp'.uid = station_sessions[tok].user_id
                     /\ resp'.bal = users[station_sessions[tok].user_id]
                     /\ resp'.cred = station_sessions[tok].auth_token )]_vars

\* C27: the expires_at of a session never changes once the session exists: no
\* connectSession, checkSession, deposit or endSession step changes it.
C27_ExpiryNeverChanges ==
    [][\A t \in DOMAIN station_sessions :
          /\ t \in DOMAIN station_sessions'
          /\ station_sessions'[t].expires_at = station_sessions[t].expires_at]_vars

\* a session has been bound, deposited on, checked after its deadline and ended
C27_Witness ==
    \E t \in DOMAIN station_sessions :
        /\ station_sessions[t].user_id # NULL
        /\ station_sessions[t].ended_at > station_sessions[t].expires_at
        /\ station_sessions[t].expires_at = station_sessions[t].created_at + SessionTTL
        /\ transactions # <<>>
        /\ resp.op = "checkSession" /\ resp.status = 401

\* C28: no step changes or removes a ledger entry that exists (the ledger only
\* grows at its end), and no step removes a session (the set of session tokens
\* only grows).
C28_LedgerAndSessionsAppendOnly ==
    [][/\ Len(transactions') >= Len(transactions)
       /\ SubSeq(transactions', 1, Len(transactions)) = transactions
       /\ DOMAIN station_sessions \subseteq DOMAIN station_sessions']_vars

\* the ledger holds a deposit made through a session and a redemption, and the
\* session has been ended
C28_Witness ==
    /\ \E i \in 1..Len(transactions) :
          transactions[i].type = "deposit" /\ transactions[i].session_token # 0
    /\ \E i \in 1..Len(transactions) : transactions[i].type = "redemption"
    /\ \E t \in DOMAIN station_sessions : station_sessions[t].ended_at # NoTime

\* the answer by which deposit refuses a request, with nothing written
DepositRefused(p, status, err) ==
    /\ resp' = Response("deposit", status, err, 0)
    /\ pc'[p] = "idle"
    /\ UNCHANGED <<users, transactions, redemptions, station_sessions>>

\* what the claim asks of a step of deposit
DepositInOrder(p, uid, tok, material, weight) ==
    IF material = "" \/ weight <= 0 \/ tok = 0
    THEN DepositRefused(p, 400, "Material, weight, and session token are required")
    ELSE IF tok \notin DOMAIN station_sessions
    THEN DepositRefused(p, 404, "Session not found")
    ELSE IF station_sessions[tok].user_id # uid
    THEN DepositRefused(p, 403, "Session not linked to this user")
    ELSE IF material \notin DOMAIN materialRates
    THEN DepositRefused(p, 400, "Invalid material type")
    ELSE TRUE

\* C29: in every reachable state, deposit reports the first of its checks that
\* fails, in the order input validation (400: empty material, weight of 0 or
\* less, empty token), session lookup (404), caller is the bound user (403),
\* material in the rate table (400 "Invalid material type"); none of these
\* answers comes with a write.
C29_DepositCheckOrder ==
    \A p \in Procs, uid \in Users, tok \in SessionTokens, r \in EarnRequests :
        ~ENABLED ( /\ deposit(p, uid, tok, r[1], r[2])
                   /\ ~DepositInOrder(p, uid, tok, r[1], r[2]) )

\* the last step refused a deposit for its input on a session that deposits had
\* been made on
C29_Witness ==
    /\ resp = Response("deposit", 400, "Material, weight, and session token are required", 0)
    /\ \E t \in DOMAIN station_sessions : station_sessions[t].status = "active"
    /\ transactions # <<>>

\* the 404 by which a handler refuses a token that no session has, with nothing
\* written
NotFoundAnswer(op) ==
    /\ resp' = Response(op, 404, "Session not found", 0)
    /\ pc' = pc
    /\ UNCHANGED <<users, transactions, redemptions, station_sessions>>

\* C30: in every reachable state, connectSession (with a valid credential),
\* checkSession, endSession and deposit (with valid input) called with a token
\* that no session has are answered 404 "Session not found" and leave every
\* session, every balance and the ledger as they were.
C30_UnknownTokenNotFound ==
    \A tok \in AllTokens :
        tok \notin DOMAIN station_sessions
        => /\ ~ENABLED (checkSession(tok) /\ ~NotFoundAnswer("checkSession"))
           /\ ~ENABLED (endSession(tok) /\ ~NotFoundAnswer("endSession"))
           /\ \A p \in Procs, a \in AuthTokens :
                 verifyJWT(a) # NULL
                 => ~ENABLED (connectSession(p, tok, a) /\ ~NotFoundAnswer("connectSession"))
           /\ \A p \in Procs, uid \in Users, r \in EarnRequests :
                 WellFormed(tok, r[1], r[2])
                 => ~ENABLED (deposit(p, uid, tok, r[1], r[2]) /\ ~NotFoundAnswer("deposit"))

\* the last step answered 404 for a token while a session with another token is
\* bound to a user
C30_Witness ==
    /\ resp.status = 404 /\ resp.err = "Session not found"
    /\ Cardinality(DOMAIN station_sessions) = 1
    /\ \E t \in DOMAIN station_sessions : station_sessions[t].status = "connected"

\* the 401 by which connectSession refuses a credential, with nothing written
BadCredentialAnswer(p) ==
    /\ resp' = Response("connectSession", 401, "Invalid auth token", 0)
    /\ pc'[p] = "idle"
    /\ UNCHANGED <<users, transactions, redemptions, station_sessions>>

\* C31: in every reachable state, a connectSession with a credential that
\* generateJWT has not signed is answered 401 "Invalid auth token" whatever the
\* token names (no session, an overdue session, a bound session), and leaves the
\* user_id, auth_token and status of every session as they were.
C31_BadCredentialFailsFirst ==
    \A p \in Procs, tok \in AllTokens, a \in AuthTokens \ ({""} \cup Signed) :
        ~ENABLED (connectSession(p, tok, a) /\ ~BadCredentialAnswer(p))

\* the last step refused a credential on a session that is bound and overdue
C31_Witness ==
    /\ resp = Response("connectSession", 401, "Invalid auth token", 0)
    /\ \E t \in DOMAIN station_sessions :
          /\ station_sessions[t].user_id # NULL
          /\ After(clock, station_sessions[t].expires_at)

\* C32: in every reachable state, every redemption on record used at least the
\* min_points of its method (bank 1000, cash 500, voucher 250): a redeemPoints
\* for fewer points is rejected and writes nothing.
C32_SpendBelowMinimumRejected ==
    \A i \in 1..Len(redemptions) :
        redemptions[i].points_used >= MinPoints[redemptions[i].method]

\* a second checkSession of the same token, from this state, gives the answer of
\* the last step again and changes nothing
CheckAgainIsSame(tok) ==
    ~ENABLED ( /\ checkSession(tok)
               /\ ~( /\ resp' = resp
                     /\ UNCHANGED <<users, transactions, redemptions, station_sessions,
                                    clock, pc, local, awarded>> ) )

\* C33: after every checkSession, a second checkSession of the same token at the
\* same clock value, with no step in between, gives the same answer and leaves
\* the state that the first one left.
C33_CheckIsIdempotent ==
    [][\A tok \in SessionTokens : checkSession(tok) => CheckAgainIsSame(tok)']_vars

\* the last step marked an overdue session with a bound user as expired
C33_Witness ==
    /\ resp = Response("checkSession", 401, "Session has expired", 0)
    /\ \E t \in DOMAIN station_sessions :
          /\ station_sessions[t].status = "expired"
          /\ station_sessions[t].ended_at = NoTime
          /\ station_sessions[t].user_id # NULL

\* where a handler is between its commit and the SELECT of the balance it returns
ReplyLabels == {"deposit_reply", "earn_reply", "redeem_reply"}

\* C34: the balance that a successful createTransaction, processDeposit, deposit
\* or redeemPoints returns is the balance of its owner right after its own
\* commit: the handler answers with the balance it reads, and no step of another
\* request changes that balance between the commit and the read.
C34_ReturnedBalanceIsOwnCommit ==
    [][\A p \in Procs :
          /\ (pc[p] \in ReplyLabels /\ pc'[p] = pc[p])
             => users'[local[p].uid] = users[local[p].uid]
          /\ (pc[p] \in ReplyLabels /\ pc'[p] = "idle")
             => resp'.bal = users[local[p].uid]]_vars

\* C35: in every reachable state, under any interleaving of connectSession,
\* checkSession, deposit and endSession, a session has a user_id if and only if
\* it has an auth_token, and then the auth_token is a credential of that user
\* (verifyJWT of it gives the user_id).
C35_NeverHalfBound ==
    \A t \in DOMAIN station_sessions :
        /\ station_sessions[t].user_id # NULL <=> station_sessions[t].auth_token # NoToken
        /\ station_sessions[t].user_id # NULL
           => verifyJWT(station_sessions[t].auth_token) = station_sessions[t].user_id

\* a bound session has been deposited on and ended while a second connectSession,
\* by the other user, is about to write to it
C35_Witness ==
    \E t \in DOMAIN station_sessions, p \in Procs :
        /\ station_sessions[t].user_id # NULL
        /\ station_sessions[t].auth_token # NoToken
        /\ station_sessions[t].ended_at # NoTime
        /\ transactions # <<>>
        /\ pc[p] = "connect_write" /\ local[p].sid = t
        /\ local[p].uid # station_sessions[t].user_id

LedgerOnlyStep ==
    \/ \E p \in Procs, uid \in Users, r \in DirectRequests :
          createTransaction(p, uid, r[1], r[2]) \/ processDeposit(p, uid, r[1], r[2])
    \/ \E p \in Procs : earnCommit(p) \/ earnRollback(p) \/ earnReply(p)
    \/ \E p \in Procs, uid \in Users, n \in RedeemPoints, m \in Methods :
          redeemPoints(p, uid, n, m)
    \/ \E p \in Procs : redeemCommit(p) \/ redeemRollback(p) \/ redeemReply(p)

\* a step of requestSession, connectSession, checkSession or endSession
SessionOnlyStep ==
    \/ \E st \in StationNames, tok \in AllTokens : requestSession(st, tok)
    \/ \E p \in Procs, tok \in {0} \cup AllTokens, a \in AuthTokens : connectSession(p, tok, a)
    \/ \E p \in Procs : connectWrite(p) \/ connectWriteFails(p)
    \/ \E tok \in {0} \cup AllTokens :
          checkSession(tok) \/ checkSessionUpdateFails(tok) \/ checkSessionUserFails(tok)
    \/ \E tok \in {0} \cup AllTokens : endSession(tok) \/ endSessionFails(tok)

\* C37: in every reachable state, no step of createTransaction, processDeposit
\* or redeemPoints changes a session, and no step of requestSession,
\* connectSession, checkSession or endSession changes a balance, the ledger or
\* the redemptions.
C37_LedgerAndSessionFrames ==
    /\ ~ENABLED (LedgerOnlyStep /\ station_sessions' # station_sessions)
    /\ ~ENABLED (SessionOnlyStep /\ <<users, transactions, redemptions>>'
                                    # <<users, transactions, redemptions>>)

\* the last step ended a bound session while the ledger holds a direct earn and
\* a redemption
C37_Witness ==
    /\ resp = Response("endSession", 200, "", 0)
    /\ \E t \in DOMAIN station_sessions :
          station_sessions[t].user_id # NULL /\ station_sessions[t].ended_at # NoTime
    /\ \E i \in 1..Len(transactions) :
          transactions[i].type = "deposit" /\ transactions[i].session_token = 0
    /\ redemptions # <<>>

\* C38: in every reachable state, every ledger entry that carries a session
\* token belongs to the user that the session of that token is bound to.
C38_SessionEntriesBelongToBoundUser ==
    \A i \in 1..Len(transactions) :
        transactions[i].session_token # 0
        => /\ transactions[i].session_token \in DOMAIN station_sessions
           /\ station_sessions[transactions[i].session_token].user_id
                 = transactions[i].user_id

\* the stored status of the session of a token is terminal
IsTerminal(tok) == SessionExists(tok) /\ station_sessions[tok].status \in Terminal

\* C39: with the clock advancing and the station polling checkSession (weak
\* fairness on both), every session reaches a terminal status, and from the
\* moment it has one it keeps a terminal status for ever, whatever
\* connectSession, deposit and endSession requests come in between.
C39_EverySessionEndsForGood ==
    \A tok \in Tokens :
        /\ SessionExists(tok) ~> IsTerminal(tok)
        /\ [](IsTerminal(tok) => []IsTerminal(tok))
====
